---- MODULE Spec2Model ----
(***************************************************************************)
(* A model of the clause builders of elastic-builder: BoolQuery            *)
(* (src/queries/compound-queries/bool-query.js), HasChildQuery and the     *)
(* direction check of TermsAggregation.order.                              *)
(*                                                                         *)
(* A JavaScript value is a record [k, s, a]: k is its kind, s a scalar     *)
(* payload and a the elements of an array.  An object (`_queryOpts`, a     *)
(* serialized document) is a function from its own keys to values.         *)
(* A method is an operator from the receiver (and arguments) to a record   *)
(* [this, thrown, ret]: the receiver after the call, the error thrown      *)
(* (NoError when it returns) and the returned document.                    *)
(***************************************************************************)
EXTENDS Integers, Sequences, FiniteSets, TLC

VARIABLES self, last, appended, direction

vars == <<self, last, appended, direction>>

\* ---------------------------------------------------------------- bounds
\* Most children a BoolQuery holds over all its groups.
MaxHeld == 2
\* The same, when only single queries are added.
MaxHeldSingle == 3
\* Longest direction string handed to TermsAggregation.order.
MaxDirLen == 4

\* ---------------------------------------------------------------- values
Undefined == [k |-> "undefined", s |-> "", a |-> <<>>]
Null == [k |-> "null", s |-> "", a |-> <<>>]
Prim(x) == [k |-> "prim", s |-> x, a |-> <<>>]
\* An instance of (a leaf subclass of) Query, named by x.
QueryObj(x) == [k |-> "query", s |-> x, a |-> <<>>]
\* The document a leaf Query named x serializes to.
Doc(x) == [k |-> "doc", s |-> x, a |-> <<>>]
Arr(xs) == [k |-> "arr", s |-> "", a |-> xs]

EmptyObject == [key \in {} |-> Undefined]

\* An error is its name and its message; NoError stands for a normal return.
NoError == [name |-> "none", message |-> ""]
TypeError == [name |-> "TypeError", message |-> ""]

NoDoc == [key |-> "", val |-> EmptyObject]

\* Inputs.
Queries == {QueryObj("q1"), QueryObj("q2")}
NonQueries == {Prim("str")}
Arrays ==
    {Arr(<<>>),
     Arr(<<QueryObj("q1")>>),
     Arr(<<QueryObj("q1"), QueryObj("q2")>>),
     Arr(<<QueryObj("q1"), Prim("str")>>),
     Arr(<<Prim("str"), QueryObj("q1")>>)}
ScalarValues == {Undefined, Prim("true")}

Result(this, thrown, ret) == [this |-> this, thrown |-> thrown, ret |-> ret]

\* ---------------------------------------------------------------- lodash
has(object, key) == key \in DOMAIN object

isNil(value) == value = Undefined \/ value = Null

isArray(value) == value.k = "arr"

head(array) == array.a[1]

\* object[key] = value
assign(object, key, value) ==
    [x \in DOMAIN object \cup {key} |-> IF x = key THEN value ELSE object[x]]

\* ---------------------------------------------------------------- core
\* new Query(queryType): the own properties of the instance, the type tag and
\* an empty options object.
Query(queryType) == [type |-> queryType, _queryOpts |-> EmptyObject]

\* this.name(...): an own property of the instance shadows the method of the
\* same name on the prototype chain, and calling a value that is not a
\* function throws a TypeError before the method body runs.
call(this, prototype, name, r) ==
    IF name \notin DOMAIN this /\ name \in prototype
    THEN r
    ELSE Result(this, TypeError, NoDoc)

\* checkType(instance, Query) throws a TypeError unless instance is a Query.
checkType(instance) == IF instance.k = "query" THEN NoError ELSE TypeError

RECURSIVE recursiveToJSON(_)
recursiveToJSON(value) ==
    IF value.k = "query" THEN Doc(value.s)
    ELSE IF value.k = "arr"
    THEN Arr([i \in 1..Len(value.a) |-> recursiveToJSON(value.a[i])])
    ELSE value

\* ---------------------------------------------------------------- BoolQuery
Clauses == <<"must", "filter", "must_not", "should">>
ClauseSet == {Clauses[i] : i \in 1..Len(Clauses)}

BoolQuery == Query("bool")

_addQuery(this, clause, query) ==
    IF checkType(query) # NoError
    THEN Result(this, TypeError, NoDoc)
    ELSE Result([this EXCEPT !._queryOpts[clause] = Arr(Append(@.a, query))],
                NoError, NoDoc)

\* qry => this._addQuery(clause, qry), called with the arguments args.
addQueryIteratee(this, clause, args) ==
    _addQuery(this, clause, IF Len(args) >= 1 THEN args[1] ELSE Undefined)

\* _.invokeMap(collection, path) with a function for path: the function is
\* invoked once per element with the element bound to `this` and with the
\* additional arguments of invokeMap (none here) as its arguments.  An arrow
\* function ignores the binding.  The first throw ends the iteration.
RECURSIVE invokeMap(_, _, _)
invokeMap(this, collection, clause) ==
    IF collection = <<>>
    THEN Result(this, NoError, NoDoc)
    ELSE LET r == addQueryIteratee(this, clause, <<>>)
         IN IF r.thrown # NoError
            THEN r
            ELSE invokeMap(r.this, Tail(collection), clause)

_addQueries(this, clause, queries) ==
    LET created == IF ~has(this._queryOpts, clause)
                   THEN [this EXCEPT !._queryOpts = assign(@, clause, Arr(<<>>))]
                   ELSE this
    IN IF isArray(queries)
       THEN invokeMap(created, queries.a, clause)
       ELSE _addQuery(created, clause, queries)

BoolQueryPrototype ==
    {"must", "filter", "mustNot", "should", "disableCoord",
     "minimumShouldMatch", "adjustPureNegative", "toJSON"}

must(this, queries) ==
    call(this, BoolQueryPrototype, "must", _addQueries(this, "must", queries))

filter(this, queries) ==
    call(this, BoolQueryPrototype, "filter", _addQueries(this, "filter", queries))

mustNot(this, queries) ==
    call(this, BoolQueryPrototype, "mustNot", _addQueries(this, "must_not", queries))

should(this, queries) ==
    call(this, BoolQueryPrototype, "should", _addQueries(this, "should", queries))

disableCoord(this, enable) ==
    call(this, BoolQueryPrototype, "disableCoord",
         Result([this EXCEPT !._queryOpts = assign(@, "disable_coord", enable)],
                NoError, NoDoc))

minimumShouldMatch(this, value) ==
    call(this, BoolQueryPrototype, "minimumShouldMatch",
         Result([this EXCEPT !._queryOpts = assign(@, "minimum_should_match", value)],
                NoError, NoDoc))

adjustPureNegative(this, enable) ==
    call(this, BoolQueryPrototype, "adjustPureNegative",
         Result([this EXCEPT !._queryOpts = assign(@, "adjust_pure_negative", enable)],
                NoError, NoDoc))

\* _.filter(clauses, clause => _.has(this._queryOpts, clause))
pickClauses(this) == SelectSeq(Clauses, LAMBDA clause : has(this._queryOpts, clause))

\* The reducer of toJSON without the unwrapping of a one-element array.
unwrapNever(clauseQueries) == recursiveToJSON(clauseQueries)

\* The reducer of toJSON: unwrap a one-element array, serialize, store.
unwrap(clauseQueries) ==
    recursiveToJSON(IF Len(clauseQueries.a) = 1 THEN head(clauseQueries)
                    ELSE clauseQueries)

RECURSIVE reduce(_, _, _)
reduce(this, clauses, qryOpts) ==
    IF clauses = <<>>
    THEN qryOpts
    ELSE reduce(this, Tail(clauses),
                assign(qryOpts, Head(clauses),
                       unwrap(this._queryOpts[Head(clauses)])))

\* The accumulator the reduce of toJSON starts from.
initialValue(this) == EmptyObject

\* toJSON reducing into the options object itself instead of a fresh one.
toJSONInPlace(this) ==
    LET cleanQryOpts == reduce(this, pickClauses(this), this._queryOpts)
    IN Result([this EXCEPT !._queryOpts = cleanQryOpts], NoError,
              [key |-> this.type, val |-> cleanQryOpts])

toJSON(this) ==
    LET cleanQryOpts == reduce(this, pickClauses(this), initialValue(this))
    IN call(this, BoolQueryPrototype, "toJSON",
            Result(this, NoError, [key |-> this.type, val |-> cleanQryOpts]))

\* ---------------------------------------------------------------- state
NoCall == [op |-> "new", args |-> <<>>, thrown |-> NoError, ret |-> NoDoc]
NoneAppended == [clause \in ClauseSet |-> <<>>]
NoDirection == [k |-> "undefined", chars |-> <<>>]

Called(op, args, r) == [op |-> op, args |-> args, thrown |-> r.thrown, ret |-> r.ret]

RECURSIVE SumLen(_, _)
SumLen(object, keys) ==
    IF keys = {} THEN 0
    ELSE LET key == CHOOSE x \in keys : TRUE
         IN Len(object[key].a) + SumLen(object, keys \ {key})

\* Children held by the query over all its groups.
Held == SumLen(self._queryOpts, ClauseSet \cap DOMAIN self._queryOpts)

ArgLen(queries) == IF isArray(queries) THEN Len(queries.a) ELSE 1

ArgItems(queries) == IF isArray(queries) THEN queries.a ELSE <<queries>>

InitBool ==
    /\ self = BoolQuery
    /\ last = NoCall
    /\ appended = NoneAppended
    /\ direction = NoDirection

\* A call of must / filter / mustNot / should.  `appended` records what the
\* calls that returned were asked to append.
Add(op, clause, queries, r) ==
    /\ self' = r.this
    /\ last' = Called(op, <<queries>>, r)
    /\ appended' = IF r.thrown = NoError
                   THEN [appended EXCEPT ![clause] = @ \o ArgItems(queries)]
                   ELSE appended
    /\ UNCHANGED direction

Must(queries) == Add("must", "must", queries, must(self, queries))
Filter(queries) == Add("filter", "filter", queries, filter(self, queries))
MustNot(queries) == Add("mustNot", "must_not", queries, mustNot(self, queries))
Should(queries) == Add("should", "should", queries, should(self, queries))

Apply(op, args, r) ==
    /\ self' = r.this
    /\ last' = Called(op, args, r)
    /\ UNCHANGED <<appended, direction>>

DisableCoord(enable) == Apply("disableCoord", <<enable>>, disableCoord(self, enable))
MinimumShouldMatch(value) == Apply("minimumShouldMatch", <<value>>, minimumShouldMatch(self, value))
AdjustPureNegative(enable) == Apply("adjustPureNegative", <<enable>>, adjustPureNegative(self, enable))
ToJSON == Apply("toJSON", <<>>, toJSON(self))

AddInputs == Queries \cup NonQueries \cup Arrays

\* The query has room for the queries within the limit.
Fits(queries, limit) == Held + ArgLen(queries) <= limit

NextBool ==
    \/ \E queries \in AddInputs : Fits(queries, MaxHeld) /\ Must(queries)
    \/ \E queries \in AddInputs : Fits(queries, MaxHeld) /\ Filter(queries)
    \/ \E queries \in AddInputs : Fits(queries, MaxHeld) /\ MustNot(queries)
    \/ \E queries \in AddInputs : Fits(queries, MaxHeld) /\ Should(queries)
    \/ \E enable \in ScalarValues : DisableCoord(enable)
    \/ \E value \in ScalarValues : MinimumShouldMatch(value)
    \/ \E enable \in ScalarValues : AdjustPureNegative(enable)
    \/ ToJSON

SpecBool == InitBool /\ [][NextBool]_vars

\* Only calls of must / filter / mustNot / should with one Query, and toJSON.
NextBoolSingle ==
    \/ \E query \in Queries : Fits(query, MaxHeldSingle) /\ Must(query)
    \/ \E query \in Queries : Fits(query, MaxHeldSingle) /\ Filter(query)
    \/ \E query \in Queries : Fits(query, MaxHeldSingle) /\ MustNot(query)
    \/ \E query \in Queries : Fits(query, MaxHeldSingle) /\ Should(query)
    \/ ToJSON

SpecBoolSingle == InitBool /\ [][NextBoolSingle]_vars

\* ---------------------------------------------------------------- HasChildQuery
\* Query.toJSON: the options, serialized key by key, under the type tag.
serialize(this) ==
    Result(this, NoError,
           [key |-> this.type,
            val |-> [key \in DOMAIN this._queryOpts |->
                        recursiveToJSON(this._queryOpts[key])]])

\* new JoiningQueryBase(queryType, refUrl, qry): a Query holding qry when given.
JoiningQueryBase(queryType, qry) ==
    IF isNil(qry)
    THEN Query(queryType)
    ELSE [Query(queryType) EXCEPT !._queryOpts = assign(@, "query", qry)]

\* new HasChildQuery(qry, type)
HasChildQuery(qry, childTypeName) ==
    LET this == JoiningQueryBase("has_child", qry)
    IN IF ~isNil(childTypeName)
       THEN [this EXCEPT !._queryOpts = assign(@, "child_type", childTypeName)]
       ELSE this

HasChildQueryPrototype ==
    {"type", "childType", "minChildren", "maxChildren", "toJSON"}

childType(this, childTypeName) ==
    call(this, HasChildQueryPrototype, "childType",
         Result([this EXCEPT !._queryOpts = assign(@, "child_type", childTypeName)],
                NoError, NoDoc))

type(this, childTypeName) ==
    call(this, HasChildQueryPrototype, "type", childType(this, childTypeName))

minChildren(this, limit) ==
    call(this, HasChildQueryPrototype, "minChildren",
         Result([this EXCEPT !._queryOpts = assign(@, "min_children", limit)],
                NoError, NoDoc))

maxChildren(this, limit) ==
    call(this, HasChildQueryPrototype, "maxChildren",
         Result([this EXCEPT !._queryOpts = assign(@, "max_children", limit)],
                NoError, NoDoc))

hasChildToJSON(this) ==
    call(this, HasChildQueryPrototype, "toJSON", serialize(this))

TypeNames == {Undefined, Prim("blog_tag"), Prim("comment")}
Limits == {Undefined, Prim("1"), Prim("2")}

InitHasChild ==
    /\ \E qry \in {Undefined} \cup Queries :
       \E childTypeName \in TypeNames \cup {Null} :
          self = HasChildQuery(qry, childTypeName)
    /\ last = NoCall
    /\ appended = NoneAppended
    /\ direction = NoDirection

Type(childTypeName) == Apply("type", <<childTypeName>>, type(self, childTypeName))
ChildType(childTypeName) == Apply("childType", <<childTypeName>>, childType(self, childTypeName))
MinChildren(limit) == Apply("minChildren", <<limit>>, minChildren(self, limit))
MaxChildren(limit) == Apply("maxChildren", <<limit>>, maxChildren(self, limit))
HasChildToJSON == Apply("toJSON", <<>>, hasChildToJSON(self))

NextHasChild ==
    \/ \E childTypeName \in TypeNames : Type(childTypeName)
    \/ \E childTypeName \in TypeNames : ChildType(childTypeName)
    \/ \E limit \in Limits : MinChildren(limit)
    \/ \E limit \in Limits : MaxChildren(limit)
    \/ HasChildToJSON

SpecHasChild == InitHasChild /\ [][NextHasChild]_vars

\* ---------------------------------------------------------------- TermsAggregation
\* A string is the sequence of its characters.
Str(chars) == [k |-> "str", chars |-> chars]
NullDirection == [k |-> "null", chars |-> <<>>]

Asc == <<"a", "s", "c">>
Desc == <<"d", "e", "s", "c">>

Letters == {"a", "s", "c", "d", "e", "A", "S", "C", "D", "E"}

toLowerChar(c) ==
    CASE c = "A" -> "a"
      [] c = "S" -> "s"
      [] c = "C" -> "c"
      [] c = "D" -> "d"
      [] c = "E" -> "e"
      [] OTHER -> c

\* A lower-casing that leaves every character as it is.
toLowerCaseNone(chars) == chars

\* String.prototype.toLowerCase
toLowerCase(chars) == [i \in 1..Len(chars) |-> toLowerChar(chars[i])]

\* The error of an enumerated option given a value outside its two values.
InvalidOption(param, v1, v2) ==
    [name |-> "Error",
     message |-> "The '" \o param \o "' parameter should be one of '"
                 \o v1 \o "' or '" \o v2 \o "'"]

\* The check of an enumerated direction: any letter-casing of the allowed
\* values passes, everything else (null included) is an InvalidOption.
validateDirection(value) ==
    IF value.k = "str" /\ toLowerCase(value.chars) \in {Asc, Desc}
    THEN NoError
    ELSE InvalidOption("direction", "asc", "desc")

\* new TermsAggregation(name, field)
TermsAggregation(name, field) ==
    [name |-> name, type |-> "terms",
     _aggsDef |-> [field |-> field]]

\* order(field, direction = 'desc'): an omitted direction takes the default.
order(this, field, dir) ==
    LET given == IF dir.k = "undefined" THEN Str(Desc) ELSE dir
        error == validateDirection(given)
    IN IF error # NoError
       THEN Result(this, error, NoDoc)
       ELSE Result([this EXCEPT !._aggsDef =
                        assign(@, "order",
                               [key |-> field, value |-> toLowerCase(given.chars)])],
                   NoError, NoDoc)

Directions ==
    {NoDirection, NullDirection}
    \cup {Str(chars) : chars \in UNION {[1..n -> Letters] : n \in 0..MaxDirLen}}

InitTerms ==
    /\ self = TermsAggregation("my_agg", "my_field")
    /\ last = NoCall
    /\ appended = NoneAppended
    /\ direction \in Directions

Order ==
    /\ last.op = "new"
    /\ Apply("order", <<direction>>, order(self, "my_field", direction))

NextTerms == Order

SpecTerms == InitTerms /\ [][NextTerms]_vars

\* ================================================================ claims
Opts == self._queryOpts

Children(clause) == IF has(Opts, clause) THEN Opts[clause].a ELSE <<>>

\* What a group of children is to serialize to.
Expected(children) ==
    IF Len(children) = 1
    THEN Doc(children[1].s)
    ELSE Arr([i \in 1..Len(children) |-> Doc(children[i].s)])

\* C1: after single-query add calls only, toJSON returns {bool: ...} with, for
\* each group, no key when nothing was appended to it, the bare serialized
\* child when one query was appended, and the list of the serialized children
\* in append order when two or more were.
C1_BareChildOrOrderedList ==
    last.op = "toJSON" =>
        /\ last.thrown = NoError
        /\ last.ret.key = "bool"
        /\ \A clause \in ClauseSet :
              IF appended[clause] = <<>>
              THEN ~has(last.ret.val, clause)
              ELSE /\ has(last.ret.val, clause)
                   /\ last.ret.val[clause] = Expected(appended[clause])

\* One must and two different should children, serialized.
C1_Witness ==
    /\ last.op = "toJSON"
    /\ Len(appended["must"]) = 1
    /\ Len(appended["should"]) = 2
    /\ appended["should"][1] # appended["should"][2]
    /\ DOMAIN last.ret.val = {"must", "should"}
    /\ last.ret.val["must"].k = "doc"
    /\ last.ret.val["should"].k = "arr"

\* C2: a group key is in the options only if the group holds a child, and
\* toJSON never returns a group key with an empty list.
C2_NoEmptyGroup ==
    /\ \A clause \in ClauseSet :
          has(Opts, clause) => Len(Opts[clause].a) >= 1
    /\ last.op = "toJSON" =>
          \A clause \in ClauseSet :
              has(last.ret.val, clause) => last.ret.val[clause] # Arr(<<>>)

\* C3: every non-group option holding a value is in the document toJSON
\* returns, with that value.
C3_ScalarOptionsSerialized ==
    last.op = "toJSON" =>
        \A key \in DOMAIN Opts \ ClauseSet :
            Opts[key] # Undefined =>
                has(last.ret.val, key) /\ last.ret.val[key] = Opts[key]

AddOps == {"must", "filter", "mustNot", "should"}

\* C4: a call of must / filter / mustNot / should that throws a TypeError
\* leaves the query as it was.
C4_FailedAddLeavesState ==
    [][(last'.op \in AddOps /\ last'.thrown = TypeError) => self' = self]_vars

ValidArrays == {queries \in Arrays : \A i \in 1..Len(queries.a) : queries.a[i] \in Queries}

\* The call returned and the group is what it was followed by the queries.
Appends(clause, queries) ==
    /\ last'.thrown = NoError
    /\ has(self'._queryOpts, clause)
    /\ self'._queryOpts[clause].a = Children(clause) \o queries.a

\* C5: a call of must / filter / mustNot / should with an array of Query
\* objects returns and appends them, in order, to what the group held.
C5_ArrayAppendsInOrder ==
    [][\A queries \in ValidArrays :
          /\ Must(queries) => Appends("must", queries)
          /\ Filter(queries) => Appends("filter", queries)
          /\ MustNot(queries) => Appends("must_not", queries)
          /\ Should(queries) => Appends("should", queries)]_vars

\* C6: a setter of HasChildQuery called with undefined leaves the options as
\* they were.
C6_UndefinedIsNoOp ==
    [][(\/ Type(Undefined)
        \/ ChildType(Undefined)
        \/ MinChildren(Undefined)
        \/ MaxChildren(Undefined)) => self'._queryOpts = self._queryOpts]_vars

\* Case-insensitive match of a string against a lower-case word.
RECURSIVE Matches(_, _)
Matches(chars, word) ==
    IF chars = <<>> \/ word = <<>>
    THEN chars = <<>> /\ word = <<>>
    ELSE /\ \/ Head(chars) = Head(word)
            \/ <<Head(chars), Head(word)>> \in
                  {<<"A", "a">>, <<"S", "s">>, <<"C", "c">>, <<"D", "d">>, <<"E", "e">>}
         /\ Matches(Tail(chars), Tail(word))

\* C7: order returns when the direction is omitted or is asc or desc in any
\* letter-casing, and otherwise throws an Error with the fixed message.
C7_DirectionValidated ==
    last.op = "order" =>
        IF \/ direction.k = "undefined"
           \/ direction.k = "str" /\ Matches(direction.chars, Asc)
           \/ direction.k = "str" /\ Matches(direction.chars, Desc)
        THEN last.thrown = NoError
        ELSE /\ last.thrown.name = "Error"
             /\ last.thrown.message =
                   "The 'direction' parameter should be one of 'asc' or 'desc'"

\* order('my_field', 'DESC') returned.
C7_Witness ==
    /\ last.op = "order"
    /\ direction = Str(<<"D", "E", "S", "C">>)
    /\ last.thrown = NoError
    /\ has(self._aggsDef, "order")

\* A second BoolQuery given the same children per group, group after group.
RECURSIVE AddAll(_, _, _)
AddAll(this, clause, children) ==
    IF children = <<>>
    THEN this
    ELSE AddAll(_addQueries(this, clause, Head(children)).this, clause, Tail(children))

RECURSIVE Rebuilt(_, _)
Rebuilt(this, clauses) ==
    IF clauses = <<>>
    THEN this
    ELSE Rebuilt(AddAll(this, Head(clauses), appended[Head(clauses)]), Tail(clauses))

\* C8: the query serializes to the document of any other BoolQuery that was
\* given the same children per group.
C8_CallOrderIrrelevant ==
    toJSON(self).ret = toJSON(Rebuilt(BoolQuery, Clauses)).ret

\* C9: toJSON leaves the query as it was, and a toJSON right after a toJSON
\* returns an equal document.
C9_ToJSONReadOnly ==
    [][ToJSON =>
          /\ self' = self
          /\ last.op = "toJSON" => last'.ret = last.ret]_vars

\* toJSON was called on a query holding children and a scalar option.
C9_Witness ==
    /\ last.op = "toJSON"
    /\ Len(Children("must")) = 1
    /\ Len(Children("should")) = 1
    /\ has(Opts, "minimum_should_match")
    /\ has(last.ret.val, "must")

\* C10: the type tag of a HasChildQuery stays has_child, and type(t) returns
\* having set child_type to t and nothing else.
C10_TypeFixedAndAlias ==
    [][/\ self'.type = "has_child"
       /\ \A childTypeName \in TypeNames :
             Type(childTypeName) =>
                 /\ last'.thrown = NoError
                 /\ self'._queryOpts =
                       assign(self._queryOpts, "child_type", childTypeName)]_vars
====
